---------------------------- MODULE Spec2Model ----------------------------
(***************************************************************************)
(* A model of the 2x2x2 cube solver: the Cube value type and its move      *)
(* table, the CubeBuilder canonicalizer and validator, the breadth-first   *)
(* Searcher, the bidirectional Solver and the CubeController that calls    *)
(* them.  Positions are numbered from 0 as in the source; a configuration  *)
(* is a TLA+ sequence, so position p of the source is element p + 1.       *)
(***************************************************************************)
EXTENDS Integers, Sequences, FiniteSets, TLC

VARIABLES
    pc,               \* where the modelled call stands
    caller,           \* "controller" (CubeController.solve) or "api" (Solver.get_solution)
    colors,           \* the 24 colour tokens the controller holds
    origin,           \* configuration of the Cube passed to get_solution
    target,           \* configuration of the target Cube
    moves,            \* the move list passed to get_solution
    optimized_cube,   \* configuration built by get_cube_from_colors in get_solution
    heap,             \* every search node created so far (Cube objects), by index
    front_searcher,   \* the Searcher started at the origin
    back_searcher,    \* the Searcher started at the target
    current_front,    \* index of the node last pulled from the front, 0 for None
    current_back,     \* index of the node last pulled from the back, 0 for None
    solved_set,       \* the meeting pair <<front, back>>, or <<>>
    solution,         \* the list get_solution returns
    error,            \* message of the ValueError raised, "" when none
    outcome,          \* the pieces of the string CubeController.solve returns, <<>> before
    cube,             \* configuration of a Cube driven through do_move
    cube_start,       \* the configuration it was constructed with
    cube_before,      \* its configuration before the last do_move
    applied,          \* the tokens passed to do_move so far, in order
    move_raised,      \* whether the last do_move raised
    calls,            \* two calls of get_solution under way together, <<>> when none
    class_attrs,      \* the class attributes every call reads
    pulled            \* what each get_next call on a Searcher driven alone gave, in order

vars == <<pc, caller, colors, origin, target, moves, optimized_cube, heap,
          front_searcher, back_searcher, current_front, current_back,
          solved_set, solution, error, outcome,
          cube, cube_start, cube_before, applied, move_raised,
          calls, class_attrs, pulled>>

solverVars == <<pc, caller, colors, origin, target, moves, optimized_cube, heap,
                front_searcher, back_searcher, current_front, current_back,
                solved_set, solution, error, outcome>>

cubeVars == <<cube, cube_start, cube_before, applied, move_raised>>

pairVars == <<calls, class_attrs>>

searchVars == <<pulled>>

-----------------------------------------------------------------------------
(* Bounds of the model.                                                    *)

\* longest scramble (over the 12 quarter turns) of an origin handed to the solver
MaxScramble == 2
\* longest scramble of a colouring handed to the canonicalizer alone
MaxBuildScramble == 1
\* most do_move calls made on one Cube
MaxMoves == 2

-----------------------------------------------------------------------------
(* Cube: labels, the solved configuration, the move table.                 *)

up_symbol == "up"
front_symbol == "front"
left_symbol == "left"
right_symbol == "right"
back_symbol == "back"
down_symbol == "down"

solved_tuple ==
    << up_symbol, front_symbol, left_symbol, up_symbol, left_symbol, back_symbol,
       up_symbol, back_symbol, right_symbol, up_symbol, right_symbol, front_symbol,
       down_symbol, left_symbol, front_symbol, down_symbol, back_symbol, left_symbol,
       down_symbol, right_symbol, back_symbol, down_symbol, front_symbol, right_symbol >>

move_dict ==
  [U  |-> << 9, 10, 11, 0, 1, 2, 3, 4, 5, 6, 7, 8,
            12, 13, 14, 15, 16, 17, 18, 19, 20, 21, 22, 23 >>,
   R  |-> << 0, 1, 2, 3, 4, 5, 11, 9, 10, 22, 23, 21,
            12, 13, 14, 15, 16, 17, 7, 8, 6, 20, 18, 19 >>,
   L  |-> << 5, 3, 4, 16, 17, 15, 6, 7, 8, 9, 10, 11,
            1, 2, 0, 14, 12, 13, 18, 19, 20, 21, 22, 23 >>,
   F  |-> << 13, 14, 12, 3, 4, 5, 6, 7, 8, 2, 0, 1,
            23, 21, 22, 15, 16, 17, 18, 19, 20, 10, 11, 9 >>,
   B  |-> << 0, 1, 2, 8, 6, 7, 19, 20, 18, 9, 10, 11,
            12, 13, 14, 4, 5, 3, 17, 15, 16, 21, 22, 23 >>,
   D  |-> << 0, 1, 2, 3, 4, 5, 6, 7, 8, 9, 10, 11,
            15, 16, 17, 18, 19, 20, 21, 22, 23, 12, 13, 14 >>,
   u  |-> << 3, 4, 5, 6, 7, 8, 9, 10, 11, 0, 1, 2,
            12, 13, 14, 15, 16, 17, 18, 19, 20, 21, 22, 23 >>,
   r  |-> << 0, 1, 2, 3, 4, 5, 20, 18, 19, 7, 8, 6,
            12, 13, 14, 15, 16, 17, 22, 23, 21, 11, 9, 10 >>,
   l  |-> << 14, 12, 13, 1, 2, 0, 6, 7, 8, 9, 10, 11,
            16, 17, 15, 5, 3, 4, 18, 19, 20, 21, 22, 23 >>,
   f  |-> << 10, 11, 9, 3, 4, 5, 6, 7, 8, 23, 21, 22,
            2, 0, 1, 15, 16, 17, 18, 19, 20, 13, 14, 12 >>,
   b  |-> << 0, 1, 2, 17, 15, 16, 4, 5, 3, 9, 10, 11,
            12, 13, 14, 19, 20, 18, 8, 6, 7, 21, 22, 23 >>,
   d  |-> << 0, 1, 2, 3, 4, 5, 6, 7, 8, 9, 10, 11,
            21, 22, 23, 12, 13, 14, 15, 16, 17, 18, 19, 20 >>,
   R2 |-> << 0, 1, 2, 3, 4, 5, 21, 22, 23, 18, 19, 20,
            12, 13, 14, 15, 16, 17, 9, 10, 11, 6, 7, 8 >>,
   U2 |-> << 6, 7, 8, 9, 10, 11, 0, 1, 2, 3, 4, 5,
            12, 13, 14, 15, 16, 17, 18, 19, 20, 21, 22, 23 >>,
   L2 |-> << 15, 16, 17, 12, 13, 14, 6, 7, 8, 9, 10, 11,
            3, 4, 5, 0, 1, 2, 18, 19, 20, 21, 22, 23 >>,
   F2 |-> << 21, 22, 23, 3, 4, 5, 6, 7, 8, 12, 13, 14,
            9, 10, 11, 15, 16, 17, 18, 19, 20, 0, 1, 2 >>,
   B2 |-> << 0, 1, 2, 18, 19, 20, 15, 16, 17, 9, 10, 11,
            12, 13, 14, 6, 7, 8, 3, 4, 5, 21, 22, 23 >>,
   D2 |-> << 0, 1, 2, 3, 4, 5, 6, 7, 8, 9, 10, 11,
            18, 19, 20, 21, 22, 23, 12, 13, 14, 15, 16, 17 >>]

\* the keys of move_dict in the order the dictionary lists them
move_dict_keys ==
    << "U", "R", "L", "F", "B", "D", "u", "r", "l", "f", "b", "d",
       "R2", "U2", "L2", "F2", "B2", "D2" >>

maximum_moves == 14

\* Cube.__permute: element i of the result is group[order[i]]
permute(group, order) == [i \in 1..Len(order) |-> group[order[i] + 1]]

\* Cube.do_move raises for a token that is no key of the table
do_move_raises(move) == move \notin DOMAIN move_dict

\* do_move with the R row of the table mistyped (the twist of one cubie lost)
do_move_typo(configuration, move) ==
    IF move \in DOMAIN move_dict
    THEN permute(configuration,
                 IF move = "R"
                 THEN << 0, 1, 2, 3, 4, 5, 9, 10, 11, 22, 23, 21,
                         12, 13, 14, 15, 16, 17, 7, 8, 6, 20, 18, 19 >>
                 ELSE move_dict[move])
    ELSE configuration

\* do_move reading only the face letter of a token: a half turn done as the
\* clockwise quarter turn
do_move_face_letter(configuration, move) ==
    IF move \in DOMAIN move_dict
    THEN permute(configuration,
                 IF Len(move) = 2
                 THEN move_dict[[U2 |-> "U", R2 |-> "R", L2 |-> "L",
                                 F2 |-> "F", B2 |-> "B", D2 |-> "D"][move]]
                 ELSE move_dict[move])
    ELSE configuration

\* do_move as a function that leaves the cube it is called on as it was
do_move_pure(configuration, move) == configuration

\* do_move turning the up face for a token that is no key of the table
do_move_default_turn(configuration, move) ==
    permute(configuration,
            IF move \in DOMAIN move_dict THEN move_dict[move] ELSE move_dict["U"])

\* Cube.do_move: the configuration after the call (unchanged when it raises)
do_move(configuration, move) ==
    IF move \in DOMAIN move_dict
    THEN permute(configuration, move_dict[move])
    ELSE configuration

\* Cube.do_moves: do_move for each token in order, up to the first that raises
RECURSIVE do_moves(_, _)
do_moves(configuration, move_list) ==
    IF move_list = <<>> \/ do_move_raises(Head(move_list))
    THEN configuration
    ELSE do_moves(do_move(configuration, Head(move_list)), Tail(move_list))

\* str.islower, str.upper and str.lower on the one-letter tokens
lower_letters == {"u", "r", "l", "f", "b", "d"}
str_upper == [u |-> "U", r |-> "R", l |-> "L", f |-> "F", b |-> "B", d |-> "D",
              U |-> "U", R |-> "R", L |-> "L", F |-> "F", B |-> "B", D |-> "D"]
str_lower == [u |-> "u", r |-> "r", l |-> "l", f |-> "f", b |-> "b", d |-> "d",
              U |-> "u", R |-> "r", L |-> "l", F |-> "f", B |-> "b", D |-> "d"]

invert_move_same(move_str) == move_str

\* Cube.invert_move
invert_move(move_str) ==
    IF Len(move_str) = 2
    THEN move_str
    ELSE IF move_str \in lower_letters
         THEN str_upper[move_str]
         ELSE str_lower[move_str]

-----------------------------------------------------------------------------
(* CubeBuilder: from 24 colour tokens to a validated configuration.        *)

\* Python's None, a value no colour token equals
None == "None"

\* the quarter turns of the faces that meet at the reference corner
moves_of_corner_faces == << "L", "l", "B", "b", "D", "d" >>

solve_moves == << "R", "r", "F", "f", "U", "u" >>

\* colors[i:i+3], i counted from 0
triplet_at(tokens, i) == << tokens[i + 1], tokens[i + 2], tokens[i + 3] >>

in_triplet(thing, triplet) == \E k \in 1..3 : triplet[k] = thing

\* CubeBuilder.__get_third
get_third(triplet, first, second) ==
    IF in_triplet(first, triplet) /\ in_triplet(second, triplet)
    THEN LET others == {k \in 1..3 : triplet[k] # first /\ triplet[k] # second}
         IN  IF others = {}
             THEN None
             ELSE triplet[CHOOSE k \in others : \A h \in others : k <= h]
    ELSE None

\* the while loop of CubeBuilder.__get_symbols: <<up, right, front>> after it
RECURSIVE symbols_loop(_, _, _, _, _)
symbols_loop(tokens, i, up, right, front) ==
    IF i + 3 > 24
    THEN << up, right, front >>
    ELSE IF i = 15
    THEN symbols_loop(tokens, i + 3, up, right, front)
    ELSE LET triplet == triplet_at(tokens, i)
             down == tokens[16]
             back == tokens[17]
             left == tokens[18]
         IN  symbols_loop(tokens, i + 3,
                 IF up = None THEN get_third(triplet, left, back) ELSE up,
                 IF right = None THEN get_third(triplet, down, back) ELSE right,
                 IF front = None THEN get_third(triplet, down, left) ELSE front)

\* a dictionary literal: a later key replaces an equal earlier one
dict_put(dict, key, value) ==
    [k \in (DOMAIN dict) \cup {key} |-> IF k = key THEN value ELSE dict[k]]

RECURSIVE dict_literal(_)
dict_literal(pairs) ==
    IF pairs = <<>>
    THEN [k \in {} |-> k]
    ELSE LET n == Len(pairs)
         IN  dict_put(dict_literal(SubSeq(pairs, 1, n - 1)), pairs[n][1], pairs[n][2])

\* __get_symbols taking the tokens for the labels themselves
get_symbols_by_name(tokens) ==
    [raised |-> FALSE,
     symbols |-> dict_literal(<< << up_symbol, up_symbol >>,
                                 << right_symbol, right_symbol >>,
                                 << left_symbol, left_symbol >>,
                                 << front_symbol, front_symbol >>,
                                 << back_symbol, back_symbol >>,
                                 << down_symbol, down_symbol >> >>)]

\* CubeBuilder.__get_symbols: the colour -> label dictionary, or a raise
get_symbols(tokens) ==
    LET found == symbols_loop(tokens, 0, None, None, None)
        symbols == dict_literal(<< << found[1], up_symbol >>,
                                   << found[2], right_symbol >>,
                                   << tokens[18], left_symbol >>,
                                   << found[3], front_symbol >>,
                                   << tokens[17], back_symbol >>,
                                   << tokens[16], down_symbol >> >>)
    IN  [raised |-> None \in DOMAIN symbols, symbols |-> symbols]

check_triplet_any_order(triplet, oriented_triplet) ==
    {triplet[k] : k \in 1..3} = {oriented_triplet[k] : k \in 1..3}

\* __check_triplet with the two rotated cases forgotten
check_triplet_unrotated(triplet, oriented_triplet) ==
    /\ triplet[1] = oriented_triplet[1]
    /\ triplet[2] = oriented_triplet[2]
    /\ triplet[3] = oriented_triplet[3]

\* CubeBuilder.__check_triplet
check_triplet(triplet, oriented_triplet) ==
    IF triplet[1] = oriented_triplet[1]
    THEN triplet[2] = oriented_triplet[2] /\ triplet[3] = oriented_triplet[3]
    ELSE IF triplet[1] = oriented_triplet[2]
    THEN triplet[2] = oriented_triplet[3] /\ triplet[3] = oriented_triplet[1]
    ELSE IF triplet[1] = oriented_triplet[3]
    THEN triplet[2] = oriented_triplet[1] /\ triplet[3] = oriented_triplet[2]
    ELSE FALSE

\* the nested loops of __check_validity that build test_cube
RECURSIVE test_cube(_, _, _)
test_cube(configuration, i, j) ==
    IF i >= Len(configuration)
    THEN <<>>
    ELSE IF j >= Len(configuration)
    THEN test_cube(configuration, i + 3, 0)
    ELSE (IF check_triplet(triplet_at(configuration, i), triplet_at(solved_tuple, j))
          THEN triplet_at(configuration, i)
          ELSE <<>>) \o test_cube(configuration, i, j + 3)

\* the colour counting of __check_validity
color_map(configuration) ==
    [c \in {configuration[k] : k \in 1..Len(configuration)} |->
        Cardinality({k \in 1..Len(configuration) : configuration[k] = c})]

\* the count checks with the four-of-each loop left out
color_counts_unchecked(configuration) ==
    Cardinality(DOMAIN color_map(configuration)) = 6

\* the two count checks of __check_validity
color_counts_pass(configuration) ==
    LET counts == color_map(configuration)
    IN  /\ Cardinality(DOMAIN counts) = 6
        /\ \A c \in DOMAIN counts : counts[c] = 4

\* CubeBuilder.__check_validity
check_validity(configuration) ==
    /\ color_counts_pass(configuration)
    /\ test_cube(configuration, 0, 0) = configuration

\* the translation loop of get_cube_from_colors: a token with no entry raises
translate_raises(tokens, symbol_dict) ==
    \E k \in 1..Len(tokens) : tokens[k] \notin DOMAIN symbol_dict

\* the token the "Error reading cube symbol" message names: the first with
\* no entry
unread_symbol(tokens, symbol_dict) ==
    LET unread == {k \in 1..Len(tokens) : tokens[k] \notin DOMAIN symbol_dict}
    IN  tokens[CHOOSE k \in unread : \A h \in unread : k <= h]

translate_list(tokens, symbol_dict) ==
    [k \in 1..Len(tokens) |-> symbol_dict[tokens[k]]]

\* get_cube_from_colors returning the cube without asking __check_validity
get_cube_from_colors_trusting(tokens) ==
    LET got == get_symbols(tokens)
        symbol_dict == got.symbols
    IN  IF got.raised
        THEN [raised |-> TRUE, message |-> "Symbol map does not resolve correctly.",
              configuration |-> <<>>]
        ELSE IF translate_raises(tokens, symbol_dict)
        THEN [raised |-> TRUE, message |-> "Error reading cube symbol",
              configuration |-> <<>>]
        ELSE [raised |-> FALSE, message |-> "",
              configuration |-> translate_list(tokens, symbol_dict)]

\* get_cube_from_colors handing back the cube it built with the down face
\* turned
get_cube_from_colors_turned(tokens) ==
    LET got == get_symbols(tokens)
        symbol_dict == got.symbols
    IN  IF got.raised
        THEN [raised |-> TRUE, message |-> "Symbol map does not resolve correctly.",
              configuration |-> <<>>]
        ELSE IF translate_raises(tokens, symbol_dict)
        THEN [raised |-> TRUE, message |-> "Error reading cube symbol",
              configuration |-> <<>>]
        ELSE LET cube_built == translate_list(tokens, symbol_dict)
             IN  IF check_validity(cube_built)
                 THEN [raised |-> FALSE, message |-> "",
                       configuration |-> do_move(cube_built, "D")]
                 ELSE [raised |-> TRUE, message |-> "Invalid cube provided.",
                       configuration |-> <<>>]

\* CubeBuilder.get_cube_from_colors: the configuration built, or the raise
get_cube_from_colors(tokens) ==
    LET got == get_symbols(tokens)
        symbol_dict == got.symbols
    IN  IF got.raised
        THEN [raised |-> TRUE, message |-> "Symbol map does not resolve correctly.",
              configuration |-> <<>>]
        ELSE IF translate_raises(tokens, symbol_dict)
        THEN [raised |-> TRUE, message |-> "Error reading cube symbol",
              configuration |-> <<>>]
        ELSE LET cube_built == translate_list(tokens, symbol_dict)
             IN  IF check_validity(cube_built)
                 THEN [raised |-> FALSE, message |-> "", configuration |-> cube_built]
                 ELSE [raised |-> TRUE, message |-> "Invalid cube provided.",
                       configuration |-> <<>>]

-----------------------------------------------------------------------------
(* Searcher: breadth-first production of search nodes.  A node is a Cube   *)
(* object: [configuration, marker, parent], parent the index of the node   *)
(* it was made from, 0 for None.                                           *)

\* search_moves=None, held in a variable whose other values are move lists
no_search_moves == << None >>

\* Cube.__init__: marker "" and parent None
new_node(configuration) ==
    [configuration |-> configuration, marker |-> "", parent |-> 0]

\* Searcher.__init__
new_searcher(start, search_moves) ==
    [currentLayer |-> << start >>,
     nextLayer |-> <<>>,
     visited |-> [c \in {} |-> 0],
     count |-> 0,
     layerNumber |-> 0,
     search_moves |-> search_moves]

\* get_cube_children making a child for every key of the table, whatever
\* search_moves holds
get_cube_children_all_moves(nodes, id, search_moves) ==
    [k \in 1..Len(move_dict_keys) |->
        [configuration |-> do_move(nodes[id].configuration, move_dict_keys[k]),
         marker |-> move_dict_keys[k],
         parent |-> id]]

\* get_cube_children with the assignment of the child's parent left out
get_cube_children_unparented(nodes, id, search_moves) ==
    LET keys == IF search_moves = << "None" >> THEN move_dict_keys ELSE search_moves
    IN  [k \in 1..Len(keys) |->
            [configuration |-> do_move(nodes[id].configuration, keys[k]),
             marker |-> keys[k],
             parent |-> 0]]

\* Searcher.get_cube_children: the child nodes of node number id, in key order
get_cube_children(nodes, id, search_moves) ==
    LET keys == IF search_moves = no_search_moves THEN move_dict_keys ELSE search_moves
    IN  [k \in 1..Len(keys) |->
            [configuration |-> do_move(nodes[id].configuration, keys[k]),
             marker |-> keys[k],
             parent |-> id]]

\* the layer promotion with the layer counter left as it was
promote_layer_uncounted(searcher) ==
    IF searcher.count >= Len(searcher.currentLayer)
    THEN [searcher EXCEPT !.currentLayer = searcher.nextLayer,
                          !.nextLayer = <<>>,
                          !.count = 0]
    ELSE searcher

\* the layer promotion at the head of Searcher.get_next
promote_layer(searcher) ==
    IF searcher.count >= Len(searcher.currentLayer)
    THEN [searcher EXCEPT !.currentLayer = searcher.nextLayer,
                          !.nextLayer = <<>>,
                          !.count = 0,
                          !.layerNumber = searcher.layerNumber + 1]
    ELSE searcher

\* get_next storing a node whose configuration is already visited in place
\* of the node the map holds, before it steps over it
RECURSIVE get_next_replacing(_, _)
get_next_replacing(searcher, nodes) ==
    LET s == promote_layer(searcher)
    IN  IF Len(s.currentLayer) = 0
        THEN [searcher |-> s, nodes |-> nodes, node |-> 0]
        ELSE LET current == s.currentLayer[s.count + 1]
             IN  IF nodes[current].configuration \in DOMAIN s.visited
                 THEN get_next_replacing(
                          [s EXCEPT !.count = s.count + 1,
                                    !.visited = dict_put(s.visited,
                                                  nodes[current].configuration, current)],
                          nodes)
                 ELSE LET children == get_cube_children(nodes, current, s.search_moves)
                          ids == [k \in 1..Len(children) |-> Len(nodes) + k]
                      IN  [searcher |->
                               [s EXCEPT !.nextLayer = s.nextLayer \o ids,
                                         !.visited = dict_put(s.visited,
                                                       nodes[current].configuration, current),
                                         !.count = s.count + 1],
                           nodes |-> nodes \o children,
                           node |-> current]

\* get_next putting the children of a node right behind it in the current
\* layer: the search goes down before it goes across
RECURSIVE get_next_depth_first(_, _)
get_next_depth_first(searcher, nodes) ==
    LET s == promote_layer(searcher)
    IN  IF Len(s.currentLayer) = 0
        THEN [searcher |-> s, nodes |-> nodes, node |-> 0]
        ELSE LET current == s.currentLayer[s.count + 1]
             IN  IF nodes[current].configuration \in DOMAIN s.visited
                 THEN get_next_depth_first([s EXCEPT !.count = s.count + 1], nodes)
                 ELSE LET children == get_cube_children(nodes, current, s.search_moves)
                          ids == [k \in 1..Len(children) |-> Len(nodes) + k]
                      IN  [searcher |->
                               [s EXCEPT !.currentLayer =
                                             SubSeq(s.currentLayer, 1, s.count + 1) \o ids
                                                 \o SubSeq(s.currentLayer, s.count + 2,
                                                           Len(s.currentLayer)),
                                         !.visited = dict_put(s.visited,
                                                       nodes[current].configuration, current),
                                         !.count = s.count + 1],
                           nodes |-> nodes \o children,
                           node |-> current]

\* Searcher.get_next: the searcher and the nodes after the call, and the node
\* returned (0 for None)
RECURSIVE get_next(_, _)
get_next(searcher, nodes) ==
    LET s == promote_layer(searcher)
    IN  IF Len(s.currentLayer) = 0
        THEN [searcher |-> s, nodes |-> nodes, node |-> 0]
        ELSE LET current == s.currentLayer[s.count + 1]
             IN  IF nodes[current].configuration \in DOMAIN s.visited
                 THEN get_next([s EXCEPT !.count = s.count + 1], nodes)
                 ELSE LET children == get_cube_children(nodes, current, s.search_moves)
                          ids == [k \in 1..Len(children) |-> Len(nodes) + k]
                      IN  [searcher |->
                               [s EXCEPT !.nextLayer = s.nextLayer \o ids,
                                         !.visited = dict_put(s.visited,
                                                       nodes[current].configuration, current),
                                         !.count = s.count + 1],
                           nodes |-> nodes \o children,
                           node |-> current]

\* the frames the interpreter lets calls nest: sys.getrecursionlimit(), 1000
\* unless the program sets it, which no line of the source does
recursion_limit == 1000

\* the frames in use when a script calls get_next
caller_frames == 1

\* the nodes of the current layer, from the one at count on, that get_next
\* steps over before it comes to one not yet visited or to the layer's end
visited_run(searcher, nodes) ==
    LET layer == searcher.currentLayer
        fresh == {k \in (searcher.count + 1)..Len(layer) :
                     nodes[layer[k]].configuration \notin DOMAIN searcher.visited}
    IN  IF fresh = {}
        THEN Len(layer) - searcher.count
        ELSE (CHOOSE k \in fresh : \A h \in fresh : k <= h) - searcher.count - 1

\* the get_next frames a call nests when the stack lets it: its own, and one
\* more for every node it steps over (the call of line 277 is made before
\* the frame that makes it returns).  The nodes stepped over are the visited
\* run of the current layer and, when that run reaches the layer's end, the
\* visited run of the layer promoted then; no node is made or stored on the way.
get_next_frames(searcher, nodes) ==
    LET s == promote_layer(searcher)
        run == visited_run(s, nodes)
        at_end == [s EXCEPT !.count = s.count + run]
    IN  IF Len(s.currentLayer) = 0 \/ at_end.count < Len(s.currentLayer)
        THEN 1 + run
        ELSE 1 + run + visited_run(promote_layer(at_end), nodes)

\* the get_next frames that fit above the caller's: the interpreter refuses
\* the call that would make the stack recursion_limit frames deep
frames_left == recursion_limit - caller_frames - 1

\* get_next raises RecursionError: the frames it would nest do not fit
get_next_overflows(searcher, nodes) ==
    get_next_frames(searcher, nodes) > frames_left

\* the searcher as the frames that ran leave it when the next nested call is
\* refused: each has promoted the layer where due and stepped over one node
get_next_unwound(searcher, nodes, frames) ==
    LET s == promote_layer(searcher)
        run == visited_run(s, nodes)
    IN  IF frames <= run
        THEN [s EXCEPT !.count = s.count + frames]
        ELSE [promote_layer([s EXCEPT !.count = s.count + run]) EXCEPT
                 !.count = frames - run]

-----------------------------------------------------------------------------
(* Solver: the pieces of get_solution and __find_matching_middle.          *)

unsolvable_error_reused == "Invalid cube provided."

\* the messages of the ValueErrors the solver raises
unsolvable_error == "CubeError: Cube is unsolvable."
impossible_error == "Cube Error: cube is impossible to solve."

\* the meeting found on the front side: the pair returned, with the back
\* pull in place of the node the back searcher stored
meeting_front_confused(nodes, back, front_node, back_node) ==
    << front_node, back_node >>

\* [current_front, back_searcher.visited[current_front.configuration]]
meeting_front(nodes, back, front_node, back_node) ==
    << front_node, back.visited[nodes[front_node].configuration] >>

\* the meeting found on the back side: the pair returned, with the front
\* pull in place of the node the front searcher stored
meeting_back_confused(nodes, front, front_node, back_node) ==
    << front_node, back_node >>

\* [front_searcher.visited[current_back.configuration], current_back]
meeting_back(nodes, front, front_node, back_node) ==
    << front.visited[nodes[back_node].configuration], back_node >>

\* the depth test made on each searcher's layer counter by itself
depth_exceeded_per_searcher(front, back) ==
    front.layerNumber > maximum_moves \/ back.layerNumber > maximum_moves

\* the depth test never true
depth_exceeded_never(front, back) == FALSE

\* the depth test after a pair of pulls
depth_exceeded(front, back) ==
    front.layerNumber + back.layerNumber > maximum_moves

\* Solver.__get_parent_chain: the node, its parent, ... up to the root
RECURSIVE get_parent_chain(_, _)
get_parent_chain(nodes, id) ==
    IF id = 0
    THEN <<>>
    ELSE << id >> \o get_parent_chain(nodes, nodes[id].parent)

RECURSIVE reversed(_)
reversed(seq) ==
    IF seq = <<>> THEN <<>> ELSE Append(reversed(Tail(seq)), Head(seq))

\* the markers of a chain, the root's "" kept
RECURSIVE chain_markers_all(_, _)
chain_markers_all(nodes, chain) ==
    IF chain = <<>>
    THEN <<>>
    ELSE << nodes[Head(chain)].marker >> \o chain_markers_all(nodes, Tail(chain))

\* the markers of a chain in order, those equal to "" left out
RECURSIVE chain_markers(_, _)
chain_markers(nodes, chain) ==
    IF chain = <<>>
    THEN <<>>
    ELSE (IF nodes[Head(chain)].marker # ""
          THEN << nodes[Head(chain)].marker >>
          ELSE <<>>) \o chain_markers(nodes, Tail(chain))

\* the second loop of get_solution with the inversion left out
back_half_not_inverted(nodes, back_chain) ==
    chain_markers(nodes, back_chain)

\* the first loop of get_solution with the test of the marker left out
front_half_unfiltered(nodes, front_chain) ==
    chain_markers_all(nodes, reversed(front_chain))

\* the first loop of get_solution: the front chain from the root down
front_half(nodes, front_chain) ==
    chain_markers(nodes, reversed(front_chain))

\* the second loop of get_solution: the back chain, each move inverted
back_half(nodes, back_chain) ==
    LET markers == chain_markers(nodes, back_chain)
    IN  [k \in 1..Len(markers) |-> invert_move(markers[k])]

-----------------------------------------------------------------------------
(* CubeController.solve: what the user is shown.                           *)

already_solved_message == "Cube is already solved."
unsolvable_message == "This cube is impossible to solve."

\* the solution string, piece by piece: the moves with ", " between them
RECURSIVE solution_string(_)
solution_string(move_list) ==
    IF Len(move_list) = 0
    THEN <<>>
    ELSE IF Len(move_list) = 1
    THEN << move_list[1] >>
    ELSE << move_list[1], ", " >> \o solution_string(Tail(move_list))

-----------------------------------------------------------------------------
(* The Move Engine driven alone: one Cube, do_move called on it.           *)

\* a configuration whose 24 stickers all differ, so that every position shows
sticker_tuple ==
    << "s00", "s01", "s02", "s03", "s04", "s05", "s06", "s07", "s08", "s09", "s10", "s11",
       "s12", "s13", "s14", "s15", "s16", "s17", "s18", "s19", "s20", "s21", "s22", "s23" >>

quarter_turns == {m \in DOMAIN move_dict : Len(m) = 1}
half_turns == {m \in DOMAIN move_dict : Len(m) = 2}

\* the class attributes as the module's import leaves them
ClassAttrs == [solve_moves |-> solve_moves, move_dict_keys |-> move_dict_keys]

\* no pair of calls under way
PairIdle ==
    /\ calls = <<>>
    /\ class_attrs = ClassAttrs

\* no Searcher driven alone
SearchIdle == pulled = <<>>

SolverIdle ==
    /\ pc = "idle"
    /\ caller = ""
    /\ colors = <<>>
    /\ origin = <<>>
    /\ target = <<>>
    /\ moves = <<>>
    /\ optimized_cube = <<>>
    /\ heap = <<>>
    /\ front_searcher = <<>>
    /\ back_searcher = <<>>
    /\ current_front = 0
    /\ current_back = 0
    /\ solved_set = <<>>
    /\ solution = <<>>
    /\ error = ""
    /\ outcome = <<>>

CubeIdle ==
    /\ cube = <<>>
    /\ cube_start = <<>>
    /\ cube_before = <<>>
    /\ applied = <<>>
    /\ move_raised = FALSE

\* Cube(configuration) for a caller of the Move Engine
InitMoves ==
    /\ cube_start \in {solved_tuple, sticker_tuple}
    /\ cube = cube_start
    /\ cube_before = cube_start
    /\ applied = <<>>
    /\ move_raised = FALSE
    /\ SolverIdle
    /\ PairIdle
    /\ SearchIdle

\* cube.do_move(move)
DoMove(move) ==
    /\ Len(applied) < MaxMoves
    /\ cube_before' = cube
    /\ cube' = do_move(cube, move)
    /\ move_raised' = do_move_raises(move)
    /\ applied' = Append(applied, move)
    /\ UNCHANGED <<cube_start, solverVars, pairVars, searchVars>>

\* tokens that are no key of the table
unknown_moves == {"M", "x", "u2", "R'", ""}

NextMoves == \E move \in DOMAIN move_dict \cup unknown_moves : DoMove(move)

SpecMoves == InitMoves /\ [][NextMoves]_vars

-----------------------------------------------------------------------------
(* Properties of the Move Engine, checked under SpecMoves.                 *)

\* C5: for every move m of the table and the configuration c a Cube holds,
\* applying m and then invert_move(m) gives c back; and a Cube on which a
\* move and then its inverse were applied holds its first configuration.
C5_InvertUndoes ==
    /\ \A m \in DOMAIN move_dict :
          do_move(do_move(cube, m), invert_move(m)) = cube
    /\ (Len(applied) = 2 /\ applied[1] \in DOMAIN move_dict
            /\ applied[2] = invert_move(applied[1])) => cube = cube_start

\* a quarter turn and then its inverse were applied to the all-different cube
C5_Witness ==
    /\ Len(applied) = 2
    /\ applied[1] \in quarter_turns
    /\ applied[2] = invert_move(applied[1])
    /\ applied[2] # applied[1]
    /\ cube_start = sticker_tuple
    /\ cube_before # cube_start
    /\ cube = cube_start

\* C6: a quarter turn applied four times, and a half turn applied twice, give
\* back the configuration they started from.
C6_TurnOrder ==
    /\ \A m \in quarter_turns : do_moves(cube, << m, m, m, m >>) = cube
    /\ \A m \in half_turns : do_moves(cube, << m, m >>) = cube
    /\ (Len(applied) = 2 /\ applied[1] \in half_turns /\ applied[2] = applied[1])
          => cube = cube_start

\* a half turn was applied twice to the all-different cube, and one quarter
\* turn of it changes the cube
C6_Witness ==
    /\ Len(applied) = 2
    /\ applied[1] \in half_turns
    /\ applied[2] = applied[1]
    /\ cube_start = sticker_tuple
    /\ cube_before # cube_start
    /\ cube = cube_start
    /\ \A m \in quarter_turns : do_move(cube, m) # cube

\* C12: do_move called with a token that is no key of the move table raises
\* (and only then), and the cube holds the configuration it held before the
\* call.
C12_UnknownMoveRaises ==
    Len(applied) > 0 =>
        LET move == applied[Len(applied)]
        IN  /\ move_raised <=> move \notin DOMAIN move_dict
            /\ move \notin DOMAIN move_dict => cube = cube_before

\* a quarter turn and then an unknown token on the all-different cube: the
\* second call raised and the cube is as the quarter turn left it
C12_Witness ==
    /\ Len(applied) = 2
    /\ applied[1] \in quarter_turns
    /\ applied[2] \in unknown_moves
    /\ move_raised
    /\ cube_start = sticker_tuple
    /\ cube # cube_start
    /\ cube = cube_before

corner_stickers(configuration) ==
    << configuration[16], configuration[17], configuration[18] >>

restricted_set == {solve_moves[k] : k \in 1..Len(solve_moves)}

half_turn_of == [U |-> "U2", R |-> "R2", L |-> "L2", F |-> "F2", B |-> "B2", D |-> "D2",
                 u |-> "U2", r |-> "R2", l |-> "L2", f |-> "F2", b |-> "B2", d |-> "D2"]

\* C20: for every face, the half turn X2 gives the configuration that the
\* clockwise quarter turn X applied twice gives, and that the counterclockwise
\* quarter turn x applied twice gives.
C20_HalfIsTwoQuarters ==
    /\ \A m \in quarter_turns :
          do_move(cube, half_turn_of[m]) = do_moves(cube, << m, m >>)
    /\ (Len(applied) = 2 /\ applied[1] \in quarter_turns /\ applied[2] = applied[1])
          => cube = do_move(cube_start, half_turn_of[applied[1]])

\* a counterclockwise quarter turn was applied twice to the all-different
\* cube, which now is what the half turn makes of it
C20_Witness ==
    /\ Len(applied) = 2
    /\ applied[1] \in quarter_turns \cap lower_letters
    /\ applied[2] = applied[1]
    /\ cube_start = sticker_tuple
    /\ cube # cube_start
    /\ cube # cube_before
    /\ cube = do_move(cube_start, half_turn_of[applied[1]])

-----------------------------------------------------------------------------
(* The canonicalizer driven alone: get_cube_from_colors on one colouring.  *)

\* the 12 quarter turns, the moves a physical cube is scrambled with
scramble_moves == << "U", "R", "L", "F", "B", "D", "u", "r", "l", "f", "b", "d" >>

\* the configurations at most n scramble moves away from those in from
RECURSIVE scrambles(_, _)
scrambles(from, n) ==
    IF n = 0
    THEN from
    ELSE scrambles(from \cup {do_move(c, scramble_moves[k]) :
                                 c \in from, k \in 1..Len(scramble_moves)}, n - 1)

\* the stickers painted with the colour names of the user interface (the keys
\* of CubeModel.color_title_map) instead of the labels themselves
palette == [up |-> "White", front |-> "Green", left |-> "Black",
            right |-> "Red", back |-> "Blue", down |-> "Yellow"]

paint(configuration) == [k \in 1..Len(configuration) |-> palette[configuration[k]]]

\* tokens a sticker may be repainted with: the six labels and a seventh colour
repaint_tokens == {up_symbol, front_symbol, left_symbol, right_symbol,
                   back_symbol, down_symbol, "purple"}

\* one sticker repainted
repainted(c) ==
    {[c EXCEPT ![k] = t] : k \in 1..Len(c), t \in repaint_tokens}

\* every sticker of one colour repainted in another: five colours left
merged(c) ==
    {[k \in 1..Len(c) |-> IF c[k] = a THEN b ELSE c[k]] :
        a \in {c[k] : k \in 1..Len(c)}, b \in {c[k] : k \in 1..Len(c)}}

\* two stickers of one cubie exchanged: the cubie mirrored
mirrored(c) ==
    {[c EXCEPT ![i + a] = c[i + b], ![i + b] = c[i + a]] :
        i \in {0, 3, 6, 9, 12, 15, 18, 21}, a \in {1, 2}, b \in {2, 3}}

\* one cubie replaced by a rotation of a cubie of the solved cube: a corner
\* twisted in place, or a cubie type that occurs twice
recubied(c) ==
    {[k \in 1..Len(c) |->
         IF k \in (i + 1)..(i + 3)
         THEN solved_tuple[j + 1 + ((k - i - 1 + rot) % 3)]
         ELSE c[k]] :
        i \in {0, 3, 6, 9, 12, 15, 18, 21}, j \in {0, 3, 6, 9, 12, 15, 18, 21},
        rot \in 0..2}

\* every colour four times, yet two cubie types occur twice and two never
doubled_cubies ==
    << up_symbol, left_symbol, back_symbol, up_symbol, left_symbol, back_symbol,
       up_symbol, right_symbol, front_symbol, up_symbol, right_symbol, front_symbol,
       down_symbol, left_symbol, front_symbol, down_symbol, back_symbol, left_symbol,
       down_symbol, right_symbol, back_symbol, down_symbol, front_symbol, right_symbol >>

\* the colourings the canonicalizer is tried on: the cubes at most n turns
\* from solved, raw and painted, and each of them spoiled in one way
BuildInputs(n) ==
    LET bases == scrambles({solved_tuple}, n)
    IN  bases
        \cup {paint(c) : c \in bases}
        \cup UNION {repainted(c) : c \in bases}
        \cup UNION {merged(c) : c \in bases}
        \cup UNION {mirrored(c) : c \in bases}
        \cup UNION {recubied(c) : c \in bases}
        \cup {doubled_cubies}

InitBuild ==
    /\ pc = "build"
    /\ caller = "builder"
    /\ colors \in BuildInputs(MaxBuildScramble)
    /\ origin = <<>>
    /\ target = <<>>
    /\ moves = <<>>
    /\ optimized_cube = <<>>
    /\ heap = <<>>
    /\ front_searcher = <<>>
    /\ back_searcher = <<>>
    /\ current_front = 0
    /\ current_back = 0
    /\ solved_set = <<>>
    /\ solution = <<>>
    /\ error = ""
    /\ outcome = <<>>
    /\ CubeIdle
    /\ PairIdle
    /\ SearchIdle

\* CubeBuilder.get_cube_from_colors(colors), called on its own
BuildCube ==
    /\ pc = "build"
    /\ LET built == get_cube_from_colors(colors)
       IN  /\ origin' = built.configuration
           /\ error' = built.message
    /\ pc' = "built"
    /\ UNCHANGED <<caller, colors, target, moves, optimized_cube, heap,
                   front_searcher, back_searcher, current_front, current_back,
                   solved_set, solution, outcome, cubeVars, pairVars, searchVars>>

NextBuild == BuildCube

SpecBuild == InitBuild /\ [][NextBuild]_vars

-----------------------------------------------------------------------------
(* Properties of the canonicalizer, checked under SpecBuild.               *)

\* exactly six distinct tokens, each on exactly four stickers
four_of_each_six(tokens) ==
    LET used == {tokens[k] : k \in 1..Len(tokens)}
    IN  /\ Cardinality(used) = 6
        /\ \A t \in used : Cardinality({k \in 1..Len(tokens) : tokens[k] = t}) = 4

cubie_starts == {0, 3, 6, 9, 12, 15, 18, 21}

\* the three cyclic rotations, and the three mirror images, of a triplet
rotations_of(t) == { << t[1], t[2], t[3] >>, << t[2], t[3], t[1] >>, << t[3], t[1], t[2] >> }
mirrors_of(t) == { << t[1], t[3], t[2] >>, << t[3], t[2], t[1] >>, << t[2], t[1], t[3] >> }

\* the labels the canonicalizer translates the tokens to, <<>> when it cannot
labels_of(tokens) ==
    LET got == get_symbols(tokens)
    IN  IF got.raised \/ translate_raises(tokens, got.symbols)
        THEN <<>>
        ELSE translate_list(tokens, got.symbols)

\* some cubie of the translated colouring is a mirror image of a solved cubie
has_mirrored_cubie(tokens) ==
    LET labels == labels_of(tokens)
    IN  /\ labels # <<>>
        /\ \E i \in cubie_starts, j \in cubie_starts :
              triplet_at(labels, i) \in mirrors_of(triplet_at(solved_tuple, j))

\* C7: get_cube_from_colors raises for every colouring whose tokens are not
\* six distinct values on four stickers each.
C7_WrongCountsRejected ==
    (pc = "built" /\ ~four_of_each_six(colors)) => error # ""

\* a colouring with all six colours, one on three stickers and one on five,
\* every cubie a rotation of a solved one, was rejected by the validity check
C7_Witness ==
    /\ pc = "built"
    /\ ~four_of_each_six(colors)
    /\ Cardinality({colors[k] : k \in 1..Len(colors)}) = 6
    /\ labels_of(colors) # <<>>
    /\ \A i \in cubie_starts : \E j \in cubie_starts :
          triplet_at(labels_of(colors), i) \in rotations_of(triplet_at(solved_tuple, j))
    /\ error = "Invalid cube provided."

\* C8: get_cube_from_colors raises for every colouring with the right colour
\* counts in which a translated cubie is a mirror image of a solved cubie.
C8_MirroredRejected ==
    (pc = "built" /\ four_of_each_six(colors) /\ has_mirrored_cubie(colors))
        => error # ""

\* such a colouring passed the counts and was rejected by the cubie check
C8_Witness ==
    /\ pc = "built"
    /\ four_of_each_six(colors)
    /\ has_mirrored_cubie(colors)
    /\ color_counts_pass(labels_of(colors))
    /\ error = "Invalid cube provided."

\* position (0, 1 or 2) of the up or down label in a cubie: its twist
twist_of(t) ==
    CHOOSE k \in 0..2 : t[k + 1] \in {up_symbol, down_symbol}

RECURSIVE twist_sum(_, _)
twist_sum(configuration, i) ==
    IF i >= Len(configuration)
    THEN 0
    ELSE twist_of(triplet_at(configuration, i)) + twist_sum(configuration, i + 3)

\* a state of a physical cube: each of the eight solved cubies occurs exactly
\* once, in one of its rotations, and the twists add up to a multiple of 3.
\* Every move of the table keeps this, so nothing else is reachable from solved.
legal_state(configuration) ==
    /\ Len(configuration) = 24
    /\ \A j \in cubie_starts :
          Cardinality({i \in cubie_starts :
              triplet_at(configuration, i) \in rotations_of(triplet_at(solved_tuple, j))}) = 1
    /\ twist_sum(configuration, 0) % 3 = 0

\* C9: every configuration get_cube_from_colors accepts is a legal state of a
\* physical cube.
C9_AcceptedIsLegal ==
    (pc = "built" /\ error = "") => legal_state(origin)

\* every Cube driven from the solved configuration by moves of the table holds
\* a legal state (what makes an illegal accepted configuration unreachable)
MovesKeepLegal ==
    (cube_start = solved_tuple) => legal_state(cube)

\* renamings of the colour tokens, as <<name, new name>> pairs (a name in no
\* pair keeps itself): every name made a fresh one; the labels and the
\* colour names each moved round one place, so that every colour bears the
\* name of another; two pairs exchanged and the seventh colour made ""
renamings ==
    { << << "up", "c1" >>, << "front", "c2" >>, << "left", "c3" >>, << "right", "c4" >>,
         << "back", "c5" >>, << "down", "c6" >>, << "purple", "c7" >>,
         << "White", "k1" >>, << "Green", "k2" >>, << "Black", "k3" >>,
         << "Red", "k4" >>, << "Blue", "k5" >>, << "Yellow", "k6" >> >>,
      << << "up", "front" >>, << "front", "left" >>, << "left", "right" >>,
         << "right", "back" >>, << "back", "down" >>, << "down", "up" >>,
         << "White", "Green" >>, << "Green", "Black" >>, << "Black", "Red" >>,
         << "Red", "Blue" >>, << "Blue", "Yellow" >>, << "Yellow", "White" >> >>,
      << << "up", "down" >>, << "down", "up" >>, << "White", "Yellow" >>,
         << "Yellow", "White" >>, << "purple", "" >> >> }

renamed_token(pairs, t) ==
    IF \E i \in 1..Len(pairs) : pairs[i][1] = t
    THEN pairs[CHOOSE i \in 1..Len(pairs) : pairs[i][1] = t][2]
    ELSE t

renamed(pairs, tokens) == [k \in 1..Len(tokens) |-> renamed_token(pairs, tokens[k])]

\* C14: get_cube_from_colors depends on the pattern of the colour tokens
\* only: on the colouring with its tokens renamed one-to-one it returns the
\* same configuration, or raises the same error (the message that names a
\* token naming the renamed token), as on the colouring itself.
C14_NamesDoNotMatter ==
    pc = "built" =>
        \A pairs \in renamings :
            LET again == get_cube_from_colors(renamed(pairs, colors))
            IN  /\ again.configuration = origin
                /\ again.message = error
                /\ again.raised = (error # "")
                /\ error = "Error reading cube symbol" =>
                      unread_symbol(renamed(pairs, colors),
                                    get_symbols(renamed(pairs, colors)).symbols)
                      = renamed_token(pairs,
                            unread_symbol(colors, get_symbols(colors).symbols))

\* a painted, scrambled cube was accepted; every renaming changes its tokens
\* and gives the same configuration
C14_Witness ==
    /\ pc = "built"
    /\ error = ""
    /\ origin # solved_tuple
    /\ colors = paint(origin)
    /\ \A pairs \in renamings :
          /\ renamed(pairs, colors) # colors
          /\ get_cube_from_colors(renamed(pairs, colors)).configuration = origin

\* C30: a configuration get_cube_from_colors returned is accepted by
\* get_cube_from_colors and returned as it is: the canonicalization of its
\* origin inside get_solution leaves a cube the caller built with
\* get_cube_from_colors unchanged.
C30_CanonicalizeIdempotent ==
    (pc = "built" /\ error = "") =>
        LET again == get_cube_from_colors(origin)
        IN  /\ ~again.raised
            /\ again.message = ""
            /\ again.configuration = origin

\* a painted cube with the reference corner turned away was accepted: the
\* configuration built differs from the labels under the paint, and a second
\* pass gives it back
C30_Witness ==
    /\ pc = "built"
    /\ error = ""
    /\ colors = paint(do_move(solved_tuple, "L"))
    /\ origin # do_move(solved_tuple, "L")
    /\ origin # solved_tuple
    /\ corner_stickers(origin) = << down_symbol, back_symbol, left_symbol >>
    /\ get_cube_from_colors(origin).configuration = origin

-----------------------------------------------------------------------------
(* A solve: CubeController.solve on a colouring, or Solver.get_solution    *)
(* called directly with an origin, a target and a move list.               *)

\* colourings the validator rejects: a sticker repainted, a sticker left
\* unpainted (the controller's token for it is ""), a cubie mirrored
invalid_colorings ==
    { [paint(solved_tuple) EXCEPT ![1] = "Yellow"],
      [paint(solved_tuple) EXCEPT ![24] = ""],
      [paint(solved_tuple) EXCEPT ![2] = "Black", ![3] = "Green"] }

\* what the controller is given: the painted cubes at most one turn from
\* solved, and the invalid colourings
ControllerInputs ==
    {paint(c) : c \in scrambles({solved_tuple}, 1)} \cup invalid_colorings

\* the cubes a physical cube scrambled from solved can show
ScrambledCubes == scrambles({solved_tuple}, MaxScramble)

\* origins get_solution refuses: a cubie mirrored, the reference corner
\* repainted so that the symbol map does not resolve, a label that is none
\* of the six
invalid_origins ==
    { [solved_tuple EXCEPT ![2] = left_symbol, ![3] = front_symbol],
      [solved_tuple EXCEPT ![17] = up_symbol],
      [solved_tuple EXCEPT ![24] = "purple"] }

\* turns of the right and up faces that leave the cube 14 clockwise turns
\* from solved, and more than the search goes
far_scramble == << "r", "u", "R", "u", "u", "u", "r", "U", "r", "U" >>
too_far_scramble == << "u", "R", "u", "r", "U", "r", "u", "R", "u" >>

\* direct calls of get_solution: <<origin, target, moves>>
ApiCases ==
    \* the scrambled cubes against the solved cube with the restricted moves
    {<< c, solved_tuple, solve_moves >> : c \in ScrambledCubes}
    \cup
    \* every move of the table (search_moves=None) on the cubes one turn away
    {<< c, solved_tuple, no_search_moves >> : c \in scrambles({solved_tuple}, 1)}
    \cup
    \* a target other than the solved cube
    {<< solved_tuple, t, solve_moves >> :
        t \in {do_move(solved_tuple, "R"), do_moves(solved_tuple, << "F", "U" >>)}}
    \cup
    \* move lists that cannot reach the target from the origin
    {<< do_move(solved_tuple, "F"), solved_tuple, m >> :
        m \in { << "R", "U" >>, << "R" >>, << "R2" >>, <<>> }}
    \cup
    \* clockwise turns only, and half turns only
    { << do_moves(solved_tuple, << "r", "u" >>), solved_tuple, << "R", "U" >> >>,
      << do_move(solved_tuple, "R"), solved_tuple, << "R", "U" >> >>,
      << solved_tuple, solved_tuple, << "R", "U" >> >>,
      << do_moves(solved_tuple, << "R2", "U2" >>), solved_tuple, << "R2", "U2", "F2" >> >>,
      << paint(do_move(solved_tuple, "B")), solved_tuple, solve_moves >>,
      << [solved_tuple EXCEPT ![1] = down_symbol], solved_tuple, solve_moves >> }
    \cup
    \* clockwise turns only on cubes a long way from solved: one whose
    \* searches meet seven layers from each start, one whose searches have
    \* not met when the depth test stops them
    { << do_moves(solved_tuple, far_scramble), solved_tuple, << "R", "U" >> >>,
      << do_moves(solved_tuple, too_far_scramble), solved_tuple, << "R", "U" >> >> }
    \cup
    \* origins the canonicalizer or the validator refuses
    {<< c, solved_tuple, solve_moves >> : c \in invalid_origins}

NothingSearched ==
    /\ optimized_cube = <<>>
    /\ heap = <<>>
    /\ front_searcher = <<>>
    /\ back_searcher = <<>>
    /\ current_front = 0
    /\ current_back = 0
    /\ solved_set = <<>>
    /\ solution = <<>>
    /\ error = ""
    /\ outcome = <<>>

Init ==
    /\ \/ /\ caller = "controller"
          /\ pc = "controller"
          /\ colors \in ControllerInputs
          /\ origin = <<>>
          /\ target = <<>>
          /\ moves = <<>>
       \/ /\ caller = "api"
          /\ pc = "get_solution"
          /\ colors = <<>>
          /\ \E case \in ApiCases :
                /\ origin = case[1]
                /\ target = case[2]
                /\ moves = case[3]
    /\ NothingSearched
    /\ CubeIdle
    /\ PairIdle
    /\ SearchIdle

\* CubeController.solve up to its call of Solver.get_solution
ControllerBuild ==
    /\ pc = "controller"
    /\ LET built == get_cube_from_colors(colors)
       IN  IF built.raised
           THEN /\ error' = built.message
                /\ pc' = "raised"
                /\ UNCHANGED <<origin, target, moves>>
           ELSE /\ origin' = built.configuration
                /\ target' = solved_tuple
                /\ moves' = solve_moves
                /\ pc' = "get_solution"
                /\ UNCHANGED error
    /\ UNCHANGED <<caller, colors, optimized_cube, heap, front_searcher, back_searcher,
                   current_front, current_back, solved_set, solution, outcome, cubeVars, pairVars, searchVars>>

\* Solver.get_solution: optimized_cube = get_cube_from_colors(origin.configuration)
Canonicalize ==
    /\ pc = "get_solution"
    /\ LET built == get_cube_from_colors(origin)
       IN  IF built.raised
           THEN /\ error' = built.message
                /\ pc' = "raised"
                /\ UNCHANGED optimized_cube
           ELSE /\ optimized_cube' = built.configuration
                /\ pc' = "middle"
                /\ UNCHANGED error
    /\ UNCHANGED <<caller, colors, origin, target, moves, heap, front_searcher,
                   back_searcher, current_front, current_back, solved_set, solution,
                   outcome, cubeVars, pairVars, searchVars>>

\* __find_matching_middle up to its loop: the two searchers and their first pulls
StartSearch ==
    /\ pc = "middle"
    /\ LET roots == << new_node(optimized_cube), new_node(target) >>
           front == get_next(new_searcher(1, moves), roots)
           back == get_next(new_searcher(2, moves), front.nodes)
       IN  /\ front_searcher' = front.searcher
           /\ back_searcher' = back.searcher
           /\ heap' = back.nodes
           /\ current_front' = front.node
           /\ current_back' = back.node
    /\ pc' = "loop"
    /\ UNCHANGED <<caller, colors, origin, target, moves, optimized_cube,
                   solved_set, solution, error, outcome, cubeVars, pairVars, searchVars>>

\* the loop going round again although a searcher returned None
LoopIgnoresNone ==
    /\ pc = "loop"
    /\ current_front = 0 \/ current_back = 0
    /\ UNCHANGED vars

\* the loop ends because a searcher returned None, and get_solution returns
\* an empty list for the None it is handed
LoopExhaustedReturns ==
    /\ pc = "loop"
    /\ current_front = 0 \/ current_back = 0
    /\ solution' = <<>>
    /\ pc' = "returned"
    /\ UNCHANGED <<caller, colors, origin, target, moves, optimized_cube, heap,
                   front_searcher, back_searcher, current_front, current_back,
                   solved_set, error, outcome, cubeVars, pairVars, searchVars>>

\* the loop ends because a searcher returned None: get_solution raises
LoopExhausted ==
    /\ pc = "loop"
    /\ current_front = 0 \/ current_back = 0
    /\ error' = unsolvable_error
    /\ pc' = "raised"
    /\ UNCHANGED <<caller, colors, origin, target, moves, optimized_cube, heap,
                   front_searcher, back_searcher, current_front, current_back,
                   solved_set, solution, outcome, cubeVars, pairVars, searchVars>>

\* the node pulled from the front is in the back searcher's visited map
MeetFront ==
    /\ pc = "loop"
    /\ current_front # 0 /\ current_back # 0
    /\ heap[current_front].configuration \in DOMAIN back_searcher.visited
    /\ solved_set' = meeting_front(heap, back_searcher, current_front, current_back)
    /\ pc' = "chain"
    /\ UNCHANGED <<caller, colors, origin, target, moves, optimized_cube, heap,
                   front_searcher, back_searcher, current_front, current_back,
                   solution, error, outcome, cubeVars, pairVars, searchVars>>

\* the node pulled from the back is in the front searcher's visited map
MeetBack ==
    /\ pc = "loop"
    /\ current_front # 0 /\ current_back # 0
    /\ heap[current_front].configuration \notin DOMAIN back_searcher.visited
    /\ heap[current_back].configuration \in DOMAIN front_searcher.visited
    /\ solved_set' = meeting_back(heap, front_searcher, current_front, current_back)
    /\ pc' = "chain"
    /\ UNCHANGED <<caller, colors, origin, target, moves, optimized_cube, heap,
                   front_searcher, back_searcher, current_front, current_back,
                   solution, error, outcome, cubeVars, pairVars, searchVars>>

\* no meeting: one more pull from each searcher, then the depth test
PullBoth ==
    /\ pc = "loop"
    /\ current_front # 0 /\ current_back # 0
    /\ heap[current_front].configuration \notin DOMAIN back_searcher.visited
    /\ heap[current_back].configuration \notin DOMAIN front_searcher.visited
    /\ LET front == get_next(front_searcher, heap)
           back == get_next(back_searcher, front.nodes)
       IN  /\ front_searcher' = front.searcher
           /\ back_searcher' = back.searcher
           /\ heap' = back.nodes
           /\ current_front' = front.node
           /\ current_back' = back.node
           /\ IF depth_exceeded(front.searcher, back.searcher)
              THEN error' = impossible_error /\ pc' = "raised"
              ELSE error' = error /\ pc' = "loop"
    /\ UNCHANGED <<caller, colors, origin, target, moves, optimized_cube,
                   solved_set, solution, outcome, cubeVars, pairVars, searchVars>>

\* get_solution after the meeting: the two chains made into the move list
Reconstruct ==
    /\ pc = "chain"
    /\ LET front_chain == get_parent_chain(heap, solved_set[1])
           back_chain == get_parent_chain(heap, solved_set[2])
       IN  solution' = front_half(heap, front_chain) \o back_half(heap, back_chain)
    /\ pc' = "returned"
    /\ UNCHANGED <<caller, colors, origin, target, moves, optimized_cube, heap,
                   front_searcher, back_searcher, current_front, current_back,
                   solved_set, error, outcome, cubeVars, pairVars, searchVars>>

\* CubeController.solve after get_solution returned or a ValueError was raised
ControllerReturn ==
    /\ caller = "controller"
    /\ pc \in {"returned", "raised"}
    /\ outcome' = IF pc = "raised"
                  THEN << unsolvable_message >>
                  ELSE IF Len(solution) = 0
                  THEN << already_solved_message >>
                  ELSE solution_string(solution)
    /\ pc' = "shown"
    /\ UNCHANGED <<caller, colors, origin, target, moves, optimized_cube, heap,
                   front_searcher, back_searcher, current_front, current_back,
                   solved_set, solution, error, cubeVars, pairVars, searchVars>>

Next ==
    \/ ControllerBuild
    \/ Canonicalize
    \/ StartSearch
    \/ LoopExhausted
    \/ MeetFront
    \/ MeetBack
    \/ PullBoth
    \/ Reconstruct
    \/ ControllerReturn

Spec == Init /\ [][Next]_vars

\* when each of the four steps that run the canonicalizer or a searcher is
\* the next statement of the call (no other step is enabled then)
BuildPending == pc = "controller"
CanonicalizePending == pc = "get_solution"
SearchPending == pc = "middle"
PullPending ==
    /\ pc = "loop"
    /\ current_front # 0 /\ current_back # 0
    /\ heap[current_front].configuration \notin DOMAIN back_searcher.visited
    /\ heap[current_back].configuration \notin DOMAIN front_searcher.visited

\* a call, once made, runs on: the interpreter executes the next statement
\* of the one thread the call is on.  Weak fairness of every step; for the
\* four steps above it is written out, with the step's guard for ENABLED.
SpecLive ==
    /\ Init /\ [][Next]_vars
    /\ WF_vars(LoopExhausted) /\ WF_vars(MeetFront) /\ WF_vars(MeetBack)
    /\ WF_vars(Reconstruct) /\ WF_vars(ControllerReturn)
    /\ ([]<>~BuildPending \/ []<><<BuildPending>>_vars)
    /\ ([]<>~CanonicalizePending \/ []<><<CanonicalizePending>>_vars)
    /\ ([]<>~SearchPending \/ []<><<SearchPending>>_vars)
    /\ ([]<>~PullPending \/ []<><<PullPending>>_vars)

-----------------------------------------------------------------------------
(* Properties of a solve, checked under Spec.                              *)

\* get_solution has returned its move list
GotSolution ==
    \/ pc = "returned"
    \/ pc = "shown" /\ error = ""

\* the number of moves of the table's list move_list needed to turn from into
\* to, by layers of configurations; -1 when more than limit are needed
RECURSIVE layers_to(_, _, _, _, _, _)
layers_to(frontier, seen, to, move_list, depth, limit) ==
    IF to \in frontier
    THEN depth
    ELSE IF frontier = {} \/ depth >= limit
    THEN 0 - 1
    ELSE LET next == {do_move(c, move_list[k]) :
                         c \in frontier, k \in 1..Len(move_list)} \ seen
         IN  layers_to(next, seen \cup next, to, move_list, depth + 1, limit)

bfs_distance(from, to, move_list) ==
    layers_to({from}, {from}, to, move_list, 0, maximum_moves)

\* C1: whenever get_solution returns a move list, do_moves of that list on
\* the canonicalized origin gives exactly the target configuration.
C1_SolutionReachesTarget ==
    GotSolution => do_moves(optimized_cube, solution) = target

\* a two-move solution, one move from each searcher's chain, was returned
C1_Witness ==
    /\ pc = "returned"
    /\ Len(solution) = 2
    /\ heap[solved_set[1]].parent # 0
    /\ heap[solved_set[2]].parent # 0
    /\ optimized_cube # target
    /\ do_moves(optimized_cube, solution) = target

\* C2: with the restricted move set the returned list is as long as the
\* breadth-first distance from the canonicalized origin to the target.
C2_ShortestSolution ==
    (GotSolution /\ moves = solve_moves)
        => Len(solution) = bfs_distance(optimized_cube, target, solve_moves)

\* a cube scrambled by two turns that needs two restricted moves was solved
\* in two, the meeting found by the front pull
C2_Witness ==
    /\ pc = "returned"
    /\ moves = solve_moves
    /\ origin \in ScrambledCubes
    /\ current_front = solved_set[1]
    /\ current_back # solved_set[2]
    /\ bfs_distance(optimized_cube, target, solve_moves) = 2
    /\ Len(solution) = 2

C4_SolvedGivesEmpty ==
    (origin = solved_tuple /\ target = solved_tuple
        /\ pc \in {"returned", "raised", "shown"})
        => /\ error = ""
           /\ solved_set = << 1, 2 >>
           /\ solution = <<>>
           /\ pc = "shown" => outcome = << already_solved_message >>

\* the controller solved a painted solved cube
C4_Witness ==
    /\ caller = "controller"
    /\ pc = "shown"
    /\ origin = solved_tuple
    /\ target = solved_tuple
    /\ colors = paint(solved_tuple)
    /\ heap[solved_set[1]].marker = ""
    /\ heap[solved_set[2]].marker = ""
    /\ solution = <<>>
    /\ outcome = << already_solved_message >>

\* the messages get_cube_from_colors raises with
validation_errors ==
    { "Symbol map does not resolve correctly.", "Error reading cube symbol",
      "Invalid cube provided." }

\* the messages the search raises with
search_errors == { "CubeError: Cube is unsolvable.",
                   "Cube Error: cube is impossible to solve." }

\* C10 as stated: an input that fails validation is shown to the user as
\* something other than the unsolvable outcome.
C10_DistinctOutcomes ==
    (pc = "shown" /\ error \in validation_errors)
        => outcome # << unsolvable_message >>

\* C10 amended: get_solution raises a ValueError in both cases, whose message
\* tells them apart (a validation message when no searcher was made, a search
\* message after); CubeController.solve returns the one unsolvable message
\* for every ValueError.
C10_MessageTellsPhase ==
    /\ (error # "" /\ front_searcher = <<>>) => error \in validation_errors
    /\ (error # "" /\ front_searcher # <<>>) => error \in search_errors
    /\ (pc = "shown" /\ error # "") => outcome = << unsolvable_message >>
    /\ (pc = "shown" /\ error = "") => outcome # << unsolvable_message >>

\* a searcher ran out of nodes: get_solution raised the search's message
C10_Witness ==
    /\ caller = "api"
    /\ pc = "raised"
    /\ front_searcher # <<>>
    /\ current_front = 0
    /\ error = "CubeError: Cube is unsolvable."

\* the origin is one get_cube_from_colors raises for: its symbol map does
\* not resolve, a token has no entry in it, or the cube built is not valid
origin_refused ==
    LET got == get_symbols(origin)
    IN  \/ got.raised
        \/ translate_raises(origin, got.symbols)
        \/ ~check_validity(translate_list(origin, got.symbols))

\* C11: when get_solution is called with an origin that fails
\* canonicalization or validation, the ValueError is raised before either
\* searcher is made: no search node exists at any point of that call.
C11_ValidationBeforeSearch ==
    (caller = "api" /\ origin_refused)
        => /\ heap = <<>>
           /\ front_searcher = <<>> /\ back_searcher = <<>>
           /\ current_front = 0 /\ current_back = 0
           /\ pc \in {"get_solution", "raised"}
           /\ (pc = "raised" => error \in validation_errors)

\* get_solution has raised for a mirrored cubie, nothing searched
C11_Witness ==
    /\ caller = "api"
    /\ pc = "raised"
    /\ origin \in invalid_origins
    /\ error = "Invalid cube provided."
    /\ heap = <<>>

\* the tokens get_solution may search with: the list passed, or every key of
\* the table for search_moves=None
allowed_moves ==
    IF moves = no_search_moves
    THEN DOMAIN move_dict
    ELSE {moves[k] : k \in 1..Len(moves)}

\* C13: every token of a returned solution is a member of the move list the
\* call was given, the inverted tokens of the back chain included.
C13_OnlySpecifiedMoves ==
    GotSolution => \A k \in 1..Len(solution) : solution[k] \in allowed_moves

\* the call is over with exactly one outcome: a move list and no error, or
\* a validation error, or a search error, and either error with no move list
Finished ==
    /\ pc \in (IF caller = "api" THEN {"returned", "raised"} ELSE {"shown"})
    /\ \/ error = ""
       \/ error \in validation_errors /\ solution = <<>> /\ heap = <<>>
       \/ error \in search_errors /\ solution = <<>> /\ heap # <<>>
    /\ error = "" => solved_set # <<>>

\* C16: every call of get_solution ends, and ends in exactly one of: a move
\* list returned, a validation error raised, a search error raised; the
\* lock-step loop is left by a meeting, by a searcher run dry or by the depth
\* bound.
C16_Terminates == <>[]Finished

\* a search with no meeting was stopped by the depth bound
C16_Witness ==
    /\ pc = "raised"
    /\ error = "Cube Error: cube is impossible to solve."
    /\ current_front # 0 /\ current_back # 0
    /\ depth_exceeded(front_searcher, back_searcher)
    /\ heap[current_front].configuration \notin DOMAIN back_searcher.visited

\* the labels of the reference corner: down, back, left at 15, 16, 17
reference_corner == << down_symbol, back_symbol, left_symbol >>

\* the nodes a searcher holds: its current layer, its next layer and the
\* values of its visited map
held_by(searcher) ==
    {searcher.currentLayer[k] : k \in 1..Len(searcher.currentLayer)}
        \cup {searcher.nextLayer[k] : k \in 1..Len(searcher.nextLayer)}
        \cup {searcher.visited[c] : c \in DOMAIN searcher.visited}

-----------------------------------------------------------------------------
(* Two calls of Solver.get_solution whose steps interleave.  What a call   *)
(* owns is in its record; what the calls share is the class attributes.    *)

\* the class attributes after a step of a call that robs the list it
\* iterates of its first move
class_attrs_consumed(c, attrs) ==
    [attrs EXCEPT !.solve_moves = IF c.pc = "loop" /\ Len(@) > 1 THEN Tail(@) ELSE @]

\* the class attributes after a step of a call: no statement of the solver,
\* the searcher or the cube assigns to one or changes the list solve_moves
class_attrs_after(c, attrs) == attrs

\* the moves argument: the default (the list object CubeBuilder.solve_moves
\* itself) or a list of the caller's own
default_moves == [by_reference |-> TRUE, list |-> <<>>]
own_moves(move_list) == [by_reference |-> FALSE, list |-> move_list]

\* a call of get_solution about to execute its first statement
new_call(call_origin, call_target, call_moves) ==
    [pc |-> "get_solution", origin |-> call_origin, target |-> call_target,
     moves |-> call_moves, optimized_cube |-> <<>>, heap |-> <<>>,
     front_searcher |-> <<>>, back_searcher |-> <<>>,
     current_front |-> 0, current_back |-> 0,
     solved_set |-> <<>>, solution |-> <<>>, error |-> "", overlapped |-> FALSE]

\* the list a searcher of the call iterates, read when it is iterated
search_moves_of(c, attrs) ==
    IF c.moves.by_reference THEN attrs.solve_moves ELSE c.moves.list

\* the first statement of get_solution
call_canonicalize(c) ==
    LET built == get_cube_from_colors(c.origin)
    IN  IF built.raised
        THEN [c EXCEPT !.error = built.message, !.pc = "raised"]
        ELSE [c EXCEPT !.optimized_cube = built.configuration, !.pc = "middle"]

\* __find_matching_middle up to its loop
call_start_search(c, attrs) ==
    LET roots == << new_node(c.optimized_cube), new_node(c.target) >>
        front == get_next(new_searcher(1, search_moves_of(c, attrs)), roots)
        back == get_next(new_searcher(2, search_moves_of(c, attrs)), front.nodes)
    IN  [c EXCEPT !.front_searcher = front.searcher,
                  !.back_searcher = back.searcher,
                  !.heap = back.nodes,
                  !.current_front = front.node,
                  !.current_back = back.node,
                  !.pc = "loop"]

\* one pass of the loop of __find_matching_middle
call_loop(c, attrs) ==
    IF c.current_front = 0 \/ c.current_back = 0
    THEN [c EXCEPT !.error = unsolvable_error, !.pc = "raised"]
    ELSE IF c.heap[c.current_front].configuration \in DOMAIN c.back_searcher.visited
    THEN [c EXCEPT !.solved_set = meeting_front(c.heap, c.back_searcher,
                                                c.current_front, c.current_back),
                   !.pc = "chain"]
    ELSE IF c.heap[c.current_back].configuration \in DOMAIN c.front_searcher.visited
    THEN [c EXCEPT !.solved_set = meeting_back(c.heap, c.front_searcher,
                                               c.current_front, c.current_back),
                   !.pc = "chain"]
    ELSE LET list == search_moves_of(c, attrs)
             front == get_next([c.front_searcher EXCEPT !.search_moves = list], c.heap)
             back == get_next([c.back_searcher EXCEPT !.search_moves = list], front.nodes)
             exceeded == depth_exceeded(front.searcher, back.searcher)
         IN  [c EXCEPT !.front_searcher = front.searcher,
                       !.back_searcher = back.searcher,
                       !.heap = back.nodes,
                       !.current_front = front.node,
                       !.current_back = back.node,
                       !.error = IF exceeded THEN impossible_error ELSE @,
                       !.pc = IF exceeded THEN "raised" ELSE "loop"]

\* get_solution after the meeting
call_reconstruct(c) ==
    [c EXCEPT !.solution =
                  front_half(c.heap, get_parent_chain(c.heap, c.solved_set[1]))
                      \o back_half(c.heap, get_parent_chain(c.heap, c.solved_set[2])),
              !.pc = "returned"]

\* the next step of a call
call_step(c, attrs) ==
    IF c.pc = "get_solution" THEN call_canonicalize(c)
    ELSE IF c.pc = "middle" THEN call_start_search(c, attrs)
    ELSE IF c.pc = "loop" THEN call_loop(c, attrs)
    ELSE IF c.pc = "chain" THEN call_reconstruct(c)
    ELSE c

call_over(c) == c.pc \in {"returned", "raised"}
call_under_way(c) == c.pc \in {"middle", "loop", "chain"}

\* a call run from its first statement to its end with no other call about
RECURSIVE run_alone(_)
run_alone(c) ==
    IF call_over(c) THEN c ELSE run_alone(call_step(c, ClassAttrs))

\* the calls made: scrambles solved with the default moves, one of them given
\* with the reference corner moved, an origin the validator refuses, a list
\* that runs a searcher dry, and lists of the caller's own
PairInputs ==
    { new_call(do_move(solved_tuple, "R"), solved_tuple, default_moves),
      new_call(do_moves(solved_tuple, << "F", "U" >>), solved_tuple, default_moves),
      new_call(do_move(solved_tuple, "L"), solved_tuple, default_moves),
      new_call([solved_tuple EXCEPT ![2] = left_symbol, ![3] = front_symbol],
               solved_tuple, default_moves),
      new_call(do_move(solved_tuple, "F"), solved_tuple, own_moves(<< "R" >>)),
      new_call(do_move(solved_tuple, "R"), solved_tuple, own_moves(<< "R", "U" >>)),
      new_call(do_moves(solved_tuple, << "r", "u" >>), solved_tuple,
               own_moves(solve_moves)) }

InitPair ==
    /\ calls \in {<< a, b >> : a \in PairInputs, b \in PairInputs}
    /\ class_attrs = ClassAttrs
    /\ SearchIdle
    /\ SolverIdle
    /\ CubeIdle

\* call i executes its next step; it overlaps the other call when that one
\* has begun and is not over
CallStep(i, at) ==
    /\ calls # <<>>
    /\ calls[i].pc = at
    /\ calls' = [calls EXCEPT ![i] =
                    [call_step(calls[i], class_attrs) EXCEPT
                        !.overlapped = @ \/ call_under_way(calls[3 - i])]]
    /\ class_attrs' = class_attrs_after(calls[i], class_attrs)
    /\ UNCHANGED <<solverVars, cubeVars, searchVars>>

CallCanonicalize(i) == CallStep(i, "get_solution")
CallStartSearch(i) == CallStep(i, "middle")
CallLoop(i) == CallStep(i, "loop")
CallReconstruct(i) == CallStep(i, "chain")

NextPair ==
    \E i \in 1..2 :
        \/ CallCanonicalize(i)
        \/ CallStartSearch(i)
        \/ CallLoop(i)
        \/ CallReconstruct(i)

SpecPair == InitPair /\ [][NextPair]_vars

CallStepAgrees ==
    (caller = "api" /\ pc \in {"returned", "raised"}) =>
        LET alone == run_alone(new_call(origin, target, own_moves(moves)))
        IN  /\ alone.pc = pc
            /\ alone.solution = solution
            /\ alone.error = error
            /\ alone.heap = heap

-----------------------------------------------------------------------------
(* A Searcher driven alone: Searcher(start, search_moves), then get_next   *)
(* called again and again, past the call that returns None.                *)

\* most get_next calls made on one Searcher
MaxPulls == 10

\* a move list that names one move n times
repeated(move, n) == [k \in 1..n |-> move]

\* <<start configuration, search_moves>>: move lists whose reach is one to six
\* configurations, lists that name a move twice, the restricted moves, the
\* whole table, and a list long enough for the stepping over its children to
\* fill the stack
SearchInputs ==
    {<< c, m >> : c \in {solved_tuple, do_moves(solved_tuple, << "F", "U" >>)},
                  m \in { <<>>, << "R" >>, << "R2" >>, << "R", "r" >>, << "R2", "U2" >>,
                          << "R", "R" >>, << "R", "U" >>, solve_moves, no_search_moves }}
    \cup {<< solved_tuple, repeated("R2", recursion_limit \div 2) >>}

InitSearch ==
    /\ caller = "searcher"
    /\ pc = "pull"
    /\ colors = <<>>
    /\ target = <<>>
    /\ optimized_cube = <<>>
    /\ \E case \in SearchInputs :
          /\ origin = case[1]
          /\ moves = case[2]
          /\ heap = << new_node(case[1]) >>
          /\ front_searcher = new_searcher(1, case[2])
    /\ back_searcher = <<>>
    /\ current_front = 0
    /\ current_back = 0
    /\ solved_set = <<>>
    /\ solution = <<>>
    /\ error = ""
    /\ outcome = <<>>
    /\ pulled = <<>>
    /\ CubeIdle
    /\ PairIdle

\* searcher.get_next(): a node or None returned, or RecursionError raised by
\* the call of line 277 that finds the stack full
Pull ==
    /\ pc = "pull"
    /\ Len(pulled) < MaxPulls
    /\ IF get_next_overflows(front_searcher, heap)
       THEN /\ front_searcher' = get_next_unwound(front_searcher, heap, frames_left)
            /\ pulled' = Append(pulled, [node |-> 0, raised |-> TRUE])
            /\ UNCHANGED <<heap, current_front>>
       ELSE LET got == get_next(front_searcher, heap)
            IN  /\ front_searcher' = got.searcher
                /\ heap' = got.nodes
                /\ current_front' = got.node
                /\ pulled' = Append(pulled, [node |-> got.node, raised |-> FALSE])
    /\ UNCHANGED <<pc, caller, colors, origin, target, moves, optimized_cube,
                   back_searcher, current_back, solved_set, solution, error, outcome,
                   cubeVars, pairVars>>

NextSearch == Pull

SpecSearch == InitSearch /\ [][NextSearch]_vars

-----------------------------------------------------------------------------
(* Properties of the Searcher, checked under SpecSearch.                   *)

\* the number of moves on the predecessor chain of a node
depth_of(nodes, id) == Len(get_parent_chain(nodes, id)) - 1

\* the moves a searcher makes children with
search_keys(searcher) ==
    IF searcher.search_moves = no_search_moves THEN move_dict_keys ELSE searcher.search_moves

\* the nodes of the current layer get_next has stepped over: their
\* configuration was in the visited map, under another node
stepped_over(searcher, nodes) ==
    {searcher.currentLayer[k] : k \in 1..searcher.count} \
        {searcher.visited[c] : c \in DOMAIN searcher.visited}

\* the nodes made from a node
children_of(nodes, id) == {n \in 1..Len(nodes) : nodes[n].parent = id}

\* C21: a get_next call leaves every entry of the visited map what it was;
\* the node it returns has a configuration the map did not hold before the
\* call, and the nodes it makes are the children of the node it returns: a
\* node stepped over is not returned, given no children and not stored.
C21_VisitedKept ==
    [][caller = "searcher" =>
          LET last == pulled'[Len(pulled')]
          IN  /\ \A c \in DOMAIN front_searcher.visited :
                    /\ c \in DOMAIN front_searcher'.visited
                    /\ front_searcher'.visited[c] = front_searcher.visited[c]
              /\ last.node # 0 =>
                    /\ heap[last.node].configuration \notin DOMAIN front_searcher.visited
                    /\ front_searcher'.visited[heap[last.node].configuration] = last.node
              /\ \A n \in (Len(heap) + 1)..Len(heap') :
                    last.node # 0 /\ heap'[n].parent = last.node
              /\ \A n \in stepped_over(front_searcher', heap') :
                    /\ children_of(heap', n) = {}
                    /\ \A k \in 1..Len(pulled') : pulled'[k].node # n]_vars

\* a call stepped over a node whose configuration the map holds under
\* another node, and returned a node of the same layer behind it
C21_Witness ==
    /\ caller = "searcher"
    /\ pulled # <<>>
    /\ pulled[Len(pulled)].node # 0
    /\ \E n \in stepped_over(front_searcher, heap) :
          /\ n < pulled[Len(pulled)].node
          /\ front_searcher.visited[heap[n].configuration] # n
          /\ children_of(heap, n) = {}

\* C22: the node the visited map holds for a configuration is as many moves
\* from the start node as the configuration is breadth-first layers from the
\* start configuration under the searcher's moves.
C22_ShortestChains ==
    caller = "searcher" =>
        \A c \in DOMAIN front_searcher.visited :
            depth_of(heap, front_searcher.visited[c])
                = bfs_distance(origin, c, search_keys(front_searcher))

\* a configuration stored one move from the start was reached again three
\* moves from the start, and the map holds the first node
C22_Witness ==
    /\ caller = "searcher"
    /\ \E n \in (1..Len(heap)) \ held_by(front_searcher) :
          LET first == front_searcher.visited[heap[n].configuration]
          IN  /\ depth_of(heap, first) = 1
              /\ depth_of(heap, n) = 3
              /\ bfs_distance(origin, heap[n].configuration,
                              search_keys(front_searcher)) = 1

\* C23: when get_next returns a node, layerNumber is the number of moves on
\* that node's predecessor chain; the nodes returned come in non-decreasing
\* depth.
C23_LayerIsDepth ==
    caller = "searcher" =>
        /\ (pulled # <<>> /\ pulled[Len(pulled)].node # 0) =>
              front_searcher.layerNumber = depth_of(heap, pulled[Len(pulled)].node)
        /\ \A j, k \in 1..Len(pulled) :
              (j < k /\ pulled[j].node # 0 /\ pulled[k].node # 0) =>
                  depth_of(heap, pulled[j].node) <= depth_of(heap, pulled[k].node)

\* a node two moves from the start was returned after nodes of the first
\* layer and after a node of its own layer was stepped over
C23_Witness ==
    /\ caller = "searcher"
    /\ Len(pulled) > 2
    /\ pulled[Len(pulled)].node # 0
    /\ depth_of(heap, pulled[Len(pulled)].node) = 2
    /\ depth_of(heap, pulled[Len(pulled) - 1].node) = 2
    /\ front_searcher.layerNumber = 2
    /\ stepped_over(front_searcher, heap) # {}

\* the configurations a searcher can reach from a set of configurations
RECURSIVE reach(_, _)
reach(found, keys) ==
    LET more == found \cup {do_move(c, keys[k]) : c \in found, k \in 1..Len(keys)}
    IN  IF more = found THEN found ELSE reach(more, keys)

\* the calls that returned a node
returning == {k \in 1..Len(pulled) : pulled[k].node # 0}

\* the calls are nodes, then None for ever: no configuration comes twice, the
\* visited map holds the configurations returned and no other, a call after a
\* None returns None, and by the first None every configuration in reach of
\* the start has come
NodesThenNone ==
    /\ \A j, k \in returning :
          j < k => heap[pulled[j].node].configuration # heap[pulled[k].node].configuration
    /\ DOMAIN front_searcher.visited = {heap[pulled[k].node].configuration : k \in returning}
    /\ \A j, k \in 1..Len(pulled) :
          (j < k /\ pulled[j].node = 0 /\ ~pulled[j].raised) => pulled[k].node = 0
    /\ (\E k \in 1..Len(pulled) : pulled[k].node = 0 /\ ~pulled[k].raised) =>
          DOMAIN front_searcher.visited = reach({origin}, search_keys(front_searcher))

\* C24: every get_next call returns, a node or None; the calls return each
\* configuration in reach of the start once and then None, and None again on
\* every later call, the visited map left as it was.
C24_ExhaustsThenNone ==
    caller = "searcher" =>
        /\ \A k \in 1..Len(pulled) : ~pulled[k].raised
        /\ NodesThenNone

\* when no call finds the stack full the calls are as C24 says
ExhaustionWithinStack ==
    (caller = "searcher" /\ \A k \in 1..Len(pulled) : ~pulled[k].raised) => NodesThenNone

\* six configurations were returned, all there are in reach, then None twice
ExhaustionReached ==
    /\ caller = "searcher"
    /\ Len(pulled) > 7
    /\ Cardinality(returning) = 6
    /\ pulled[Len(pulled)].node = 0
    /\ pulled[Len(pulled) - 1].node = 0
    /\ Cardinality(reach({origin}, search_keys(front_searcher))) = 6

-----------------------------------------------------------------------------
(* Properties of the two searches of a solve, checked under Spec.          *)

\* the node a predecessor chain ends at
root_of(nodes, id) ==
    LET chain == get_parent_chain(nodes, id)
    IN  chain[Len(chain)]

\* the nodes a searcher's visited map holds
stored_by(searcher) == {searcher.visited[c] : c \in DOMAIN searcher.visited}

\* C25: the nodes of a solve form two trees, one rooted at each searcher's
\* start node: every other node has one predecessor, a node made before it
\* that its searcher returned (a value of that searcher's visited map); its
\* configuration is the predecessor's with the node's marker applied; and its
\* predecessor chain ends at a start node.
C25_NodesFormTrees ==
    heap # <<>> =>
        /\ heap[1] = new_node(optimized_cube)
        /\ heap[2] = new_node(target)
        /\ \A n \in 3..Len(heap) :
              LET p == heap[n].parent
              IN  /\ p \in 1..(n - 1)
                  /\ heap[n].configuration
                        = do_move(heap[p].configuration, heap[n].marker)
                  /\ root_of(heap, n) \in {1, 2}
                  /\ root_of(heap, n) = 1 => p \in stored_by(front_searcher)
                  /\ root_of(heap, n) = 2 => p \in stored_by(back_searcher)

\* both searchers have returned nodes two moves from their start, and the
\* children of those nodes hang three moves down either tree
C25_Witness ==
    /\ pc = "loop"
    /\ front_searcher.layerNumber = 2
    /\ back_searcher.layerNumber = 2
    /\ \E n, m \in 3..Len(heap) :
          /\ root_of(heap, n) = 1 /\ depth_of(heap, n) = 3
          /\ root_of(heap, m) = 2 /\ depth_of(heap, m) = 3

\* the two layer counters add up to more than Cube.maximum_moves
over_depth ==
    /\ front_searcher # <<>>
    /\ front_searcher.layerNumber + back_searcher.layerNumber > maximum_moves

\* C26: when the two layer counters after a pair of pulls add up to more
\* than 14, the solve has ended there with the search's ValueError and no
\* move list (and that error is raised for no other reason); no meeting pair
\* exists in a state where they add up to more than 14.
C26_DepthBoundStops ==
    /\ over_depth =>
          /\ pc \in {"raised", "shown"}
          /\ error = impossible_error
          /\ solved_set = <<>>
          /\ solution = <<>>
    /\ error = impossible_error => over_depth
    /\ solved_set # <<>> => ~over_depth

\* a cube nine turns of two faces from the target: searched with the
\* clockwise turns of those faces, both searchers went from layer 7 to layer
\* 8 in one pair of pulls, nothing met, and the solve was stopped
C26_Witness ==
    /\ pc = "raised"
    /\ moves = << "R", "U" >>
    /\ do_moves(origin, << "U", "r", "U", "R", "u", "R", "U", "r", "U" >>) = target
    /\ front_searcher.layerNumber + back_searcher.layerNumber > maximum_moves
    /\ front_searcher.layerNumber = back_searcher.layerNumber
    /\ current_front # 0 /\ current_back # 0
    /\ error = impossible_error

\* C27: when a searcher has returned None no meeting pair is made and no
\* move list returned: the loop is left and get_solution ends with the
\* search's ValueError (the one for the None it was handed, unless the depth
\* test fired on the same pair of pulls).
C27_ExhaustedIsUnsolvable ==
    (front_searcher # <<>> /\ (current_front = 0 \/ current_back = 0)) =>
        /\ solved_set = <<>>
        /\ solution = <<>>
        /\ pc \in {"loop", "raised", "shown"}
        /\ pc = "loop" => error = ""
        /\ pc # "loop" =>
              error = (IF over_depth THEN impossible_error ELSE unsolvable_error)

\* both searchers ran dry in the same pair of pulls, each with the four
\* configurations it can reach stored and none in common
C27_Witness ==
    /\ pc = "raised"
    /\ front_searcher # <<>>
    /\ current_front = 0 /\ current_back = 0
    /\ Cardinality(DOMAIN front_searcher.visited) = 4
    /\ Cardinality(DOMAIN back_searcher.visited) = 4
    /\ DOMAIN front_searcher.visited \cap DOMAIN back_searcher.visited = {}
    /\ error = unsolvable_error

\* the configurations of the nodes the last pair of pulls returned
just_pulled ==
    {heap[n].configuration : n \in {current_front, current_back} \ {0}}

\* C28: the meeting pair is a node of the front tree and a node of the back
\* tree with one configuration; one of them is the node just pulled on its
\* side, the other the node the other searcher's visited map holds for that
\* configuration; and the search goes on only while no configuration is in
\* both visited maps: one found in both is the configuration of a node of
\* the last pair of pulls.
C28_MeetingPair ==
    /\ solved_set # <<>> =>
          LET front == solved_set[1]
              back == solved_set[2]
          IN  /\ heap[front].configuration = heap[back].configuration
              /\ root_of(heap, front) = 1
              /\ root_of(heap, back) = 2
              /\ front = front_searcher.visited[heap[front].configuration]
              /\ back = back_searcher.visited[heap[back].configuration]
              /\ \/ front = current_front
                 \/ /\ back = current_back
                    /\ heap[current_front].configuration
                          \notin DOMAIN back_searcher.visited
    /\ front_searcher # <<>> =>
          (DOMAIN front_searcher.visited \cap DOMAIN back_searcher.visited)
              \subseteq just_pulled

\* a meeting found by the back pull: the front node of the pair is one the
\* front searcher returned earlier, both nodes below their roots
C28_Witness ==
    /\ pc = "chain"
    /\ solved_set[2] = current_back
    /\ solved_set[1] # current_front
    /\ solved_set[1] < current_front
    /\ heap[solved_set[1]].parent # 0
    /\ heap[solved_set[2]].parent # 0

\* C29: the two nodes of a meeting pair are together at most
\* Cube.maximum_moves moves from their start nodes, and a returned move list
\* is at most that long.
C29_SolutionWithinBound ==
    /\ solved_set # <<>> =>
          depth_of(heap, solved_set[1]) + depth_of(heap, solved_set[2]) <= maximum_moves
    /\ GotSolution => Len(solution) <= maximum_moves

\* a solution of 14 moves was returned, seven from each searcher's chain
C29_Witness ==
    /\ pc = "returned"
    /\ Len(solution) = maximum_moves
    /\ depth_of(heap, solved_set[1]) = 7
    /\ depth_of(heap, solved_set[2]) = 7
    /\ do_moves(optimized_cube, solution) = target

=============================================================================
